---- MODULE Spec2Model ----
(***************************************************************************)
(* Contact-resolution core of the tp5 notebook: SOC_projection, the two    *)
(* solver entry points solve_contact and solve_contact_ADMM_CCP, and the   *)
(* diagnostic compute_sig_residual, as they stand in the notebook.         *)
(*                                                                         *)
(* Numbers.  A float is modelled by an extended rational <<n, d>> in       *)
(* lowest terms with d >= 0: d > 0 is the finite value n/d, <<0, 0>> is    *)
(* NaN and <<1, 0>>, <<-1, 0>> are +inf and -inf.  Arithmetic is exact     *)
(* (rounding is not modelled); division by zero and comparisons follow     *)
(* IEEE-754 as numpy applies them: x/0 is inf or NaN and raises nothing,   *)
(* every ordered comparison with NaN is false.                             *)
(*                                                                         *)
(* Arrays are functions on 0..n-1, so that flat indices read as in the     *)
(* source (3*i, 3*i+1, 3*i+2).                                             *)
(***************************************************************************)
EXTENDS Integers, FiniteSets, Sequences, TLC

\* ------------------------------------------------------------------ bounds
\* largest number of contacts of a SOC_projection call
MaxNc == 2
\* largest number of contacts of a solver call
MaxSolveNc == 2
\* largest max_iter of a solver call
MaxIter == 2
\* largest number of contacts of a compute_sig_residual call
MaxSigNc == 2
\* number of timesteps T of a simulation loop
MaxT == 2
\* number of simulation loops run one after the other
MaxRuns == 2
\* largest number of contacts computeContactProblem finds in a timestep
MaxSimNc == 2
\* the same in a sliding-cube loop, whose cube has four corners on the floor
MaxSlideNc == 4
\* largest number of rows or columns of a matrix given to LTI_system
MaxDim == 2

\* ----------------------------------------------------- extended rationals
Abs(n) == IF n < 0 THEN -n ELSE n

Sgn(n) == IF n < 0 THEN -1 ELSE IF n > 0 THEN 1 ELSE 0

RECURSIVE GCD(_, _)
GCD(a, b) == IF b = 0 THEN a ELSE GCD(b, a % b)

\* n/d in lowest terms; d = 0 gives NaN (n = 0) or a signed infinity
Rat(n, d) ==
    IF d = 0 THEN <<Sgn(n), 0>>
    ELSE LET k == GCD(Abs(n), Abs(d))
         IN <<(Sgn(d) * n) \div k, Abs(d) \div k>>

R(n) == <<n, 1>>

Zero == <<0, 1>>

NaN == <<0, 0>>

IsNaN(a) == a = NaN

IsFinite(a) == a[2] > 0

RMul(a, b) == Rat(a[1] * b[1], a[2] * b[2])

RAdd(a, b) ==
    IF IsNaN(a) \/ IsNaN(b) THEN NaN
    ELSE IF a[2] = 0 /\ b[2] = 0 THEN (IF a = b THEN a ELSE NaN)
    ELSE Rat(a[1] * b[2] + b[1] * a[2], a[2] * b[2])

RDiv(a, b) ==
    IF IsNaN(a) \/ IsNaN(b) THEN NaN
    ELSE IF a[2] = 0 /\ b[2] = 0 THEN NaN
    ELSE Rat(a[1] * b[2] * (IF b[1] < 0 THEN -1 ELSE 1), a[2] * Abs(b[1]))

\* IEEE comparisons: false as soon as one side is NaN
RLt(a, b) ==
    /\ ~IsNaN(a)
    /\ ~IsNaN(b)
    /\ IF a[2] = 0 /\ b[2] = 0 THEN a[1] < b[1]
       ELSE a[1] * b[2] < b[1] * a[2]

RGt(a, b) == RLt(b, a)

RLe(a, b) ==
    /\ ~IsNaN(a)
    /\ ~IsNaN(b)
    /\ IF a[2] = 0 /\ b[2] = 0 THEN a[1] <= b[1]
       ELSE a[1] * b[2] <= b[1] * a[2]

REq(a, b) == ~IsNaN(a) /\ ~IsNaN(b) /\ a = b

ISqrt(n) == CHOOSE r \in 0..n : r * r = n

RSqrt(a) ==
    IF IsNaN(a) \/ a[1] < 0 THEN NaN
    ELSE IF a[2] = 0 THEN a
    ELSE <<ISqrt(a[1]), ISqrt(a[2])>>

\* np.linalg.norm of a 2-vector
Norm2(a, b) == RSqrt(RAdd(RMul(a, a), RMul(b, b)))

\* ------------------------------------------------------------------ arrays
Size(f) == Cardinality(DOMAIN f)

Zeros(n) == [k \in 0..(n - 1) |-> Zero]

Vectors(n, S) == [0..(n - 1) -> S]

\* element-wise ==, all(): what a test comparing two arrays evaluates
VecEq(a, b) == /\ DOMAIN a = DOMAIN b
               /\ \A k \in DOMAIN a : REq(a[k], b[k])

\* v[1::3]: the slice taken one index too early
NormalSlice_tangential(v) == [k \in 0..((Size(v) + 1) \div 3 - 1) |-> v[3 * k + 1]]

\* v[2::3], the normal components extracted for the residual
NormalSlice(v) == [k \in 0..(Size(v) \div 3 - 1) |-> v[3 * k + 2]]

\* v[3*k], the tangential-x component extracted for the internal forces
TangentialX(v, k) == v[3 * k]

\* the block of contact k taken alone, as a problem of one contact
Block(v, k) == [x \in 0..2 |-> v[3 * k + x]]

\* ------------------------------------------------------------------ inputs
\* tangential parts, all of rational norm
TangSet == {<<R(0), R(0)>>, <<R(3), R(4)>>, <<R(0), R(-1)>>}

NormalSet == {R(-1), R(0), R(2)}

MuSet == {R(0), Rat(1, 2), R(1)}

BlockSet == {<<t[1], t[2], z>> : t \in TangSet, z \in NormalSet}

\* the flat vector made of the blocks bs[0], bs[1], ...
Flat(bs) == [k \in 0..(3 * Size(bs) - 1) |-> bs[k \div 3][(k % 3) + 1]]

None == {}

Some(v) == {v}

Val(o) == CHOOSE v \in o : TRUE

\* Delassus matrices and free velocities handed to the solvers
DelassusSet(n) ==
    {[r \in 0..(3 * n - 1), c \in 0..(3 * n - 1) |-> IF r = c THEN R(d) ELSE Zero] :
        d \in {1, 2}}

FreeVelSet(n) == {[k \in 0..(3 * n - 1) |-> R(v)] : v \in {-1, 0}}

\* tol, as the exponent e of 1e-e
TolSet == {6, 3}

RhoSet == {R(10)}

\* normal impulses, normal velocities and reference velocities of the residual
SigLamSet == {R(-1), R(0), R(3)}

SigCSet == {R(-1), R(0), R(5)}

SigCStarSet == {R(0), R(1)}

VARIABLES
    pc,         \* where the interpreter stands
    exc,        \* the exception raised by the running call, "none" if none
    mus, nc, i, \* argument mus and locals nc, i of the running function
    lam, lam_proj, soc_ret, prev_ret,           \* SOC_projection
    G, g, tol, rho, max_iter, j, pgs_lam, site, \* the solvers
    ret,        \* value returned by the solver call
    nb_lam,     \* the notebook's global name lam, None while unbound
    lambda_n, c_n, c_n_star, n_c, resid_vec, sig_ret, \* compute_sig_residual
    memo,       \* outcome of an earlier solver call on the probe arguments
    loop, runs, \* the simulation loop being run, and how many were started
    sim_t, sim_q, sim_v, \* t, q and v of the simulation loop
    prob,       \* what computeContactProblem returned in this timestep
    lam_t,      \* the timestep whose solver call bound the global lam
    trace,      \* the statements executed so far in this timestep
    heap,       \* the arrays of the simulation loop: object |-> value
    q_obj, v_obj, \* the arrays the names q and v are bound to
    qs, vs,     \* the lists qs and vs: the arrays they hold, in order
    hist_q, hist_v, \* the values q and v had when they were appended
    resids,     \* the list of Signorini residuals of a sliding-cube loop
    lti,        \* the arguments of LTI_system(...) and the object constructed
    cart        \* nls_cartpole: its argument, locals and result, and y = C x

socVars == <<lam, lam_proj, soc_ret, prev_ret>>

solveVars == <<G, g, tol, rho, max_iter, j, pgs_lam, site, ret, nb_lam>>

sigVars == <<lambda_n, c_n, c_n_star, n_c, resid_vec, sig_ret>>

trajVars == <<heap, q_obj, v_obj, qs, vs, hist_q, hist_v>>

ctlVars == <<lti, cart>>

simVars == <<memo, loop, runs, sim_t, sim_q, sim_v, prob, lam_t, trace, trajVars,
             resids, ctlVars>>

vars == <<pc, exc, mus, nc, i, socVars, solveVars, sigVars, simVars>>

Init ==
    /\ pc = "idle"
    /\ exc = "none"
    /\ mus = <<>>
    /\ nc = 0
    /\ i = 0
    /\ lam = <<>>
    /\ lam_proj = <<>>
    /\ soc_ret = None
    /\ prev_ret = None
    /\ G = <<>>
    /\ g = <<>>
    /\ tol = 0
    /\ rho = Zero
    /\ max_iter = 0
    /\ j = 0
    /\ pgs_lam = <<>>
    /\ site = "none"
    /\ ret = None
    /\ nb_lam = None
    /\ lambda_n = <<>>
    /\ c_n = <<>>
    /\ c_n_star = <<>>
    /\ n_c = 0
    /\ resid_vec = <<>>
    /\ sig_ret = None
    /\ memo = None
    /\ loop = "none"
    /\ runs = 0
    /\ sim_t = 0
    /\ sim_q = <<>>
    /\ sim_v = <<>>
    /\ prob = None
    /\ lam_t = -1
    /\ trace = <<>>
    /\ heap = <<>>
    /\ q_obj = -1
    /\ v_obj = -1
    /\ qs = <<>>
    /\ vs = <<>>
    /\ hist_q = <<>>
    /\ hist_v = <<>>
    /\ resids = <<>>
    /\ lti = None
    /\ cart = None

\* ---------------------------------------------------------- SOC_projection
\* friction_cone_exterior = [mu, 1]/||[mu, 1]|| and
\* projected_point with friction_cone_exterior left unnormalised
projected_point_unnormalised(x, z, mu) ==
    LET c  == RAdd(RMul(x, mu), RMul(z, R(1)))
        p  == <<RMul(c, mu), RMul(c, R(1))>>
    IN IF RLt(p[2], Zero) THEN <<RMul(p[1], Zero), RMul(p[2], Zero)>> ELSE p

\* projected_point = ([x, z] . friction_cone_exterior) * friction_cone_exterior;
\* the two divisions by ||[mu, 1]|| are one division by mu^2 + 1.
\* A negative projected normal zeroes the point (projected_point *= 0).
projected_point(x, z, mu) ==
    LET s2 == RAdd(RMul(mu, mu), R(1))
        c  == RDiv(RAdd(RMul(x, mu), RMul(z, R(1))), s2)
        p  == <<RMul(c, mu), RMul(c, R(1))>>
    IN IF RLt(p[2], Zero) THEN <<RMul(p[1], Zero), RMul(p[2], Zero)>> ELSE p

\* copy_block with the slice one short: the normal component is not copied
copy_block_tangential(l, k) == <<l[3 * k], l[3 * k + 1], Zero>>

\* the block of an already feasible contact is copied
copy_block(l, k) == <<l[3 * k], l[3 * k + 1], l[3 * k + 2]>>

\* the body of the loop for contact k: the three values written to lam_proj
SOC_block(l, m, k) ==
    LET norm == Norm2(l[3 * k], l[3 * k + 1])
    IN IF RGt(norm, RMul(m[k], l[3 * k + 2]))
       THEN LET pp == projected_point(norm, l[3 * k + 2], m[k])
            IN <<RDiv(RMul(pp[1], l[3 * k]), norm),
                 RDiv(RMul(pp[1], l[3 * k + 1]), norm),
                 pp[2]>>
       ELSE copy_block(l, k)

\* the projection branch of contact k divides by norm
SOC_divides(l, m, k) ==
    RGt(Norm2(l[3 * k], l[3 * k + 1]), RMul(m[k], l[3 * k + 2]))

SOC_enter(l, m) ==
    /\ lam' = l
    /\ mus' = m
    /\ nc' = Size(l) \div 3
    /\ lam_proj' = Zeros(Size(l))
    /\ i' = 0
    /\ soc_ret' = None
    /\ pc' = "soc_loop"
    /\ exc' = "none"
    /\ UNCHANGED <<solveVars, sigVars, simVars>>

\* a call on fresh arguments
SOC_call ==
    /\ pc = "idle"
    /\ \E n \in 0..MaxNc :
         \E bs \in Vectors(n, BlockSet), m \in Vectors(n, MuSet) :
            SOC_enter(Flat(bs), m)
    /\ prev_ret' = None

\* a call on the result of the call that just returned, same mus
SOC_call_again ==
    /\ pc = "soc_done"
    /\ prev_ret = None
    /\ SOC_enter(Val(soc_ret), mus)
    /\ prev_ret' = soc_ret

\* SOC_iter projecting in place: the block is also written into the argument
SOC_iter_inplace ==
    /\ pc = "soc_loop"
    /\ i < nc
    /\ lam_proj' = [k \in DOMAIN lam_proj |->
                      IF k \div 3 = i THEN SOC_block(lam, mus, i)[(k % 3) + 1]
                      ELSE lam_proj[k]]
    /\ lam' = [k \in DOMAIN lam |->
                 IF k \div 3 = i THEN SOC_block(lam, mus, i)[(k % 3) + 1]
                 ELSE lam[k]]
    /\ i' = i + 1
    /\ UNCHANGED <<pc, exc, mus, nc, soc_ret, prev_ret, solveVars, sigVars, simVars>>

SOC_iter ==
    /\ pc = "soc_loop"
    /\ i < nc
    /\ lam_proj' = [k \in DOMAIN lam_proj |->
                      IF k \div 3 = i THEN SOC_block(lam, mus, i)[(k % 3) + 1]
                      ELSE lam_proj[k]]
    /\ i' = i + 1
    /\ UNCHANGED <<pc, exc, lam, mus, nc, soc_ret, prev_ret, solveVars, sigVars, simVars>>

SOC_return ==
    /\ pc = "soc_loop"
    /\ i = nc
    /\ soc_ret' = Some(lam_proj)
    /\ pc' = "soc_done"
    /\ UNCHANGED <<exc, lam, mus, nc, lam_proj, i, prev_ret, solveVars, sigVars, simVars>>

NextSOC == SOC_call \/ SOC_call_again \/ SOC_iter \/ SOC_return

SpecSOC == Init /\ [][NextSOC]_vars

\* ----------------------------------------------------------- solve_contact
\* lam = np.zeros(3*nc) with the slice one factor short
pgs_alloc_short(n) == Zeros(n)

\* lam = np.zeros(3*nc)
pgs_alloc(n) == Zeros(3 * n)

\* what a finished call leaves behind: its frame is dropped
DropFrame ==
    /\ mus' = <<>>
    /\ nc' = 0
    /\ i' = 0
    /\ G' = <<>>
    /\ g' = <<>>
    /\ tol' = 0
    /\ rho' = Zero
    /\ max_iter' = 0
    /\ j' = 0
    /\ pgs_lam' = <<>>
    /\ site' = "none"
    /\ ret' = None
    /\ exc' = "none"

\* solve_contact(G, g, mus, tol, max_iter) is entered: nc = len(mus) and
\* lam = np.zeros(3*nc).  site "loop" is the statement
\* lam = solve_contact(Del, g, mus, tolerance, max_iter) of a simulation loop,
\* which binds the notebook's global lam; site "expr" is a bare call.
PGS_call ==
    /\ pc = "idle"
    /\ \E n \in 0..MaxSolveNc :
         \E Gi \in DelassusSet(n), gi \in FreeVelSet(n), m \in Vectors(n, MuSet),
            t \in TolSet, mi \in 1..MaxIter, s \in {"expr", "loop"} :
            /\ G' = Gi
            /\ g' = gi
            /\ mus' = m
            /\ tol' = t
            /\ max_iter' = mi
            /\ site' = s
            /\ nc' = Size(m)
            /\ pgs_lam' = pgs_alloc(Size(m))
    /\ j' = 0
    /\ i' = 0
    /\ pc' = "pgs_outer"
    /\ UNCHANGED <<exc, rho, ret, nb_lam, socVars, sigVars, simVars>>

\* for j in range(max_iter): a sweep starts
PGS_sweep ==
    /\ pc = "pgs_outer"
    /\ j < max_iter
    /\ i' = 0
    /\ pc' = "pgs_inner"
    /\ UNCHANGED <<exc, mus, nc, G, g, tol, rho, max_iter, j, pgs_lam, site, ret,
                   nb_lam, socVars, sigVars, simVars>>

\* PGS_contact whose body clears the free velocity of the contact in place
PGS_contact_writes_g ==
    /\ pc = "pgs_inner"
    /\ i < nc
    /\ i' = i + 1
    /\ g' = [k \in DOMAIN g |-> IF k \div 3 = i THEN Zero ELSE g[k]]
    /\ UNCHANGED <<pc, exc, mus, nc, G, tol, rho, max_iter, j, pgs_lam, site,
                   ret, nb_lam, socVars, sigVars, simVars>>

\* PGS_contact over range(nc + 1)
PGS_contact_one_more ==
    /\ pc = "pgs_inner"
    /\ i <= nc
    /\ i' = i + 1
    /\ UNCHANGED <<pc, exc, mus, nc, G, g, tol, rho, max_iter, j, pgs_lam, site,
                   ret, nb_lam, socVars, sigVars, simVars>>

\* for i in range(nc): the body of the loop is `pass`
PGS_contact ==
    /\ pc = "pgs_inner"
    /\ i < nc
    /\ i' = i + 1
    /\ UNCHANGED <<pc, exc, mus, nc, G, g, tol, rho, max_iter, j, pgs_lam, site,
                   ret, nb_lam, socVars, sigVars, simVars>>

\* PGS_sweep_end leaving the sweep loop as soon as a sweep changed nothing
PGS_sweep_end_early ==
    /\ pc = "pgs_inner"
    /\ i = nc
    /\ j' = max_iter
    /\ pc' = "pgs_outer"
    /\ UNCHANGED <<exc, mus, nc, i, G, g, tol, rho, max_iter, pgs_lam, site, ret,
                   nb_lam, socVars, sigVars, simVars>>

\* range(nc) is exhausted: next j
PGS_sweep_end ==
    /\ pc = "pgs_inner"
    /\ i = nc
    /\ j' = j + 1
    /\ pc' = "pgs_outer"
    /\ UNCHANGED <<exc, mus, nc, i, G, g, tol, rho, max_iter, pgs_lam, site, ret,
                   nb_lam, socVars, sigVars, simVars>>

\* return lam; at site "loop" the value is bound to the global lam
PGS_return ==
    /\ pc = "pgs_outer"
    /\ j = max_iter
    /\ ret' = Some(pgs_lam)
    /\ nb_lam' = IF site = "loop" THEN Some(pgs_lam) ELSE nb_lam
    /\ pc' = "pgs_done"
    /\ UNCHANGED <<exc, mus, nc, i, G, g, tol, rho, max_iter, j, pgs_lam, site,
                   socVars, sigVars, simVars>>

\* -------------------------------------------------- solve_contact_ADMM_CCP
\* solve_contact_ADMM_CCP(G, g, mus, rho, max_iter) is entered; its body is
\* the single statement `return lam`
ADMM_call ==
    /\ pc = "idle"
    /\ \E n \in 0..MaxSolveNc :
         \E Gi \in DelassusSet(n), gi \in FreeVelSet(n), m \in Vectors(n, MuSet),
            r \in RhoSet, mi \in 1..MaxIter :
            /\ G' = Gi
            /\ g' = gi
            /\ mus' = m
            /\ rho' = r
            /\ max_iter' = mi
    /\ site' = "loop"
    /\ pc' = "admm_body"
    /\ UNCHANGED <<exc, nc, i, tol, j, pgs_lam, ret, nb_lam, socVars, sigVars, simVars>>

\* return lam: no local lam exists, the name resolves to the global lam
ADMM_return ==
    /\ pc = "admm_body"
    /\ nb_lam # None
    /\ ret' = nb_lam
    /\ pc' = "admm_done"
    /\ UNCHANGED <<exc, mus, nc, i, G, g, tol, rho, max_iter, j, pgs_lam, site,
                   nb_lam, socVars, sigVars, simVars>>

\* return lam while the global lam is unbound: NameError
ADMM_raise ==
    /\ pc = "admm_body"
    /\ nb_lam = None
    /\ exc' = "NameError"
    /\ pc' = "admm_done"
    /\ UNCHANGED <<mus, nc, i, G, g, tol, rho, max_iter, j, pgs_lam, site, ret,
                   nb_lam, socVars, sigVars, simVars>>

\* the notebook goes on to its next statement
Solver_next ==
    /\ pc \in {"pgs_done", "admm_done"}
    /\ DropFrame
    /\ pc' = "idle"
    /\ UNCHANGED <<nb_lam, socVars, sigVars, simVars>>

NextSolvers ==
    \/ PGS_call
    \/ PGS_sweep
    \/ PGS_contact
    \/ PGS_sweep_end
    \/ PGS_return
    \/ ADMM_call
    \/ ADMM_return
    \/ ADMM_raise
    \/ Solver_next

SpecSolvers == Init /\ [][NextSolvers]_vars

\* a solver call runs to its end once entered: the interpreter executes the
\* statements of solve_contact one after the other
SpecSolversFair ==
    /\ SpecSolvers
    /\ WF_vars(PGS_sweep)
    /\ WF_vars(PGS_contact)
    /\ WF_vars(PGS_sweep_end)
    /\ WF_vars(PGS_return)

\* the arguments of the running solver call are the probe arguments: one
\* contact, mu = 1/2, G = identity, g = -1, one iteration
IsProbe ==
    /\ Size(mus) = 1
    /\ mus[0] = Rat(1, 2)
    /\ Size(g) = 3
    /\ G[0, 0] = R(1)
    /\ g[0] = R(-1)
    /\ max_iter = 1
    /\ (pc = "pgs_done" => tol = 6)

\* the notebook goes on to its next statement; the outcome of the call that
\* just ended, made on the probe arguments, is kept for comparison
Solver_record ==
    /\ pc \in {"pgs_done", "admm_done"}
    /\ IsProbe
    /\ memo = None
    /\ memo' = Some(<<pc, exc, ret>>)
    /\ DropFrame
    /\ pc' = "idle"
    /\ UNCHANGED <<nb_lam, socVars, sigVars, loop, runs, sim_t, sim_q, sim_v,
                   prob, lam_t, trace, trajVars, resids,
                   ctlVars>>

NextStateless == NextSolvers \/ Solver_record

SpecStateless == Init /\ [][NextStateless]_vars

\* ------------------------------------------------------ solvers: claims
\* C7: solve_contact returns, raising nothing, a vector of length 3*Nc
C7_PGSReturnsLength ==
    pc = "pgs_done" =>
        /\ exc = "none"
        /\ ret # None
        /\ Size(Val(ret)) = 3 * Size(mus)
        /\ Size(g) = Size(Val(ret))

\* a call with two contacts and two sweeps has returned
C7_Witness ==
    /\ pc = "pgs_done"
    /\ Size(mus) = 2
    /\ max_iter = 2
    /\ j = 2
    /\ Size(Val(ret)) = 6

\* C8: solve_contact_ADMM_CCP returns, raising nothing, a vector of length 3*Nc
C8_ADMMReturnsLength ==
    pc = "admm_done" =>
        /\ exc = "none"
        /\ ret # None
        /\ Size(Val(ret)) = 3 * Size(mus)

\* a solver call has ended
SolverDone == pc \in {"pgs_done", "admm_done"}

\* C11: for one resting contact with normal Delassus entry 1 and free normal
\* velocity -1, either solver returns the normal impulse 1
C11_RestingImpulse ==
    (SolverDone /\ Size(mus) = 1 /\ G[2, 2] = R(1) /\ g[2] = R(-1)) =>
        /\ exc = "none"
        /\ ret # None
        /\ Size(Val(ret)) = 3
        /\ Val(ret)[2] = R(1)

\* C12: for one contact with mu = 0, either solver returns tangential
\* components equal to 0
C12_ZeroFrictionTangential ==
    (SolverDone /\ Size(mus) = 1 /\ mus[0] = Zero) =>
        /\ exc = "none"
        /\ ret # None
        /\ Size(Val(ret)) = 3
        /\ Val(ret)[0] = Zero
        /\ Val(ret)[1] = Zero

\* C13: a solver call on the probe arguments ends as every earlier call of the
\* same solver on the same arguments did, whatever was executed in between
C13_Stateless ==
    (SolverDone /\ IsProbe /\ memo # None /\ Val(memo)[1] = pc) =>
        Val(memo) = <<pc, exc, ret>>

\* C14: from its entry to its return a solver call leaves G, g and mus as
\* they were
C14_InputsUnchanged ==
    [][(pc \in {"pgs_outer", "pgs_inner", "admm_body"}) =>
          (G' = G /\ g' = g /\ mus' = mus)]_vars

\* a call of solve_contact with two contacts, a nonzero free velocity and two
\* sweeps has returned
C14_Witness ==
    /\ pc = "pgs_done"
    /\ Size(mus) = 2
    /\ g[0] = R(-1)
    /\ j = 2
    /\ Size(Val(ret)) = 6

\* a call of solve_contact with no contact is running or has ended
PGS_empty == pc \in {"pgs_outer", "pgs_inner", "pgs_done"} /\ Size(mus) = 0

\* C16 as stated: with no contact solve_contact returns an empty vector and
\* enters neither the sweep loop nor the body of the contact loop
C16_NoIteration ==
    PGS_empty =>
        /\ pc # "pgs_inner"
        /\ i = 0
        /\ (pc = "pgs_done" => ret = Some(<<>>))

\* C16 amended: with no contact solve_contact returns an empty vector and
\* never enters the body of the contact loop; the sweep loop still runs
\* max_iter times
C16_NoContactIteration ==
    PGS_empty =>
        /\ i = 0
        /\ (pc = "pgs_done" => (ret = Some(<<>>) /\ j = max_iter))

\* a call with no contact and max_iter = 2 has returned
C16_Witness ==
    /\ pc = "pgs_done"
    /\ Size(mus) = 0
    /\ max_iter = 2
    /\ ret = Some(<<>>)

\* C20: solve_contact starts from lambda = 0, runs exactly max_iter sweeps,
\* each over the contacts 0, 1, ..., nc-1 in this order, returns a vector in
\* which tol plays no part, and always returns
C20_SweepSchedule ==
    /\ []((pc = "pgs_outer" /\ j = 0) => pgs_lam = Zeros(3 * Size(mus)))
    /\ [][(pc = "pgs_outer" /\ pc' = "pgs_inner") => (j < max_iter /\ i' = 0)]_vars
    /\ [][(pc = "pgs_inner" /\ pc' = "pgs_inner") => (i < nc /\ i' = i + 1)]_vars
    /\ [][(pc = "pgs_inner" /\ pc' = "pgs_outer") =>
            (i = Size(mus) /\ j' = j + 1)]_vars
    /\ [](pc = "pgs_done" => (j = max_iter /\ ret = Some(Zeros(3 * Size(mus)))))
    /\ ((pc = "pgs_outer") ~> (pc = "pgs_done"))

\* a call with two contacts has finished its second sweep
C20_Witness ==
    /\ pc = "pgs_inner"
    /\ nc = 2
    /\ i = 2
    /\ j = 1
    /\ max_iter = 2

\* ------------------------------------------------------- simulation loops
\* what a simulation loop leaves alone
simFrame == <<mus, nc, i, G, g, tol, rho, max_iter, j, pgs_lam, site, ret,
              socVars, sigVars, memo, resids, ctlVars>>

\* the timestep sim_t of the loop that is running, told apart from every other
Stamp == runs * (MaxT + 1) + sim_t

\* a statement of the loop body with what it reads: q, v, the global lam and
\* the contact problem
Entry(op) ==
    [op |-> op, q |-> sim_q, v |-> sim_v, lam |-> lam_t,
     pt |-> IF prob = None THEN -1 ELSE Val(prob).t]

\* the heap h with one more array, of value val
Alloc(h, val) == [k \in 0..Size(h) |-> IF k = Size(h) THEN val ELSE h[k]]

\* q, v = q0.copy(), v0.copy(); qs, vs = [q0], [v0]: four arrays, q0 and v0
\* in the lists, their copies bound to q and v
\* for t in range(T): of a cell with the PGS
\* solver or of a cell with the CCP solver
Sim_start ==
    /\ pc = "idle"
    /\ loop = "none"
    /\ runs < MaxRuns
    /\ \E kind \in {"pgs", "ccp"} : loop' = kind
    /\ runs' = runs + 1
    /\ sim_t' = 0
    /\ sim_q' = <<"q0", 0>>
    /\ sim_v' = <<"v0", 0>>
    /\ prob' = None
    /\ trace' = <<>>
    /\ heap' = [k \in 0..3 |-> IF k % 2 = 0 THEN <<"q0", 0>> ELSE <<"v0", 0>>]
    /\ qs' = <<0>>
    /\ vs' = <<1>>
    /\ q_obj' = 2
    /\ v_obj' = 3
    /\ hist_q' = <<<<"q0", 0>>>>
    /\ hist_v' = <<<<"v0", 0>>>>
    /\ pc' = "sim_collide"
    /\ UNCHANGED <<exc, nb_lam, lam_t, simFrame>>

\* tau = np.zeros(model.nv); pin.updateGeometryPlacements(..., q);
\* pin.computeCollisions(...)
Sim_collide ==
    /\ pc = "sim_collide"
    /\ trace' = Append(trace, Entry("collide"))
    /\ pc' = "sim_problem"
    /\ UNCHANGED <<exc, nb_lam, lam_t, loop, runs, sim_t, sim_q, sim_v, prob,
                   simFrame, trajVars>>

\* J, vf, Del, g, mus = computeContactProblem(..., q, v, tau, dt): n contacts
\* are found, J is None when n = 0
Sim_problem ==
    /\ pc = "sim_problem"
    /\ \E n \in 0..MaxSimNc :
         /\ prob' = Some([n |-> n, t |-> Stamp])
         /\ pc' = IF n = 0 THEN "sim_free" ELSE "sim_solve"
    /\ trace' = Append(trace, Entry("problem"))
    /\ UNCHANGED <<exc, nb_lam, lam_t, loop, runs, sim_t, sim_q, sim_v,
                   simFrame, trajVars>>

\* lam = solve_contact(Del, g, mus, tolerance, max_iter)
Sim_solve_pgs ==
    /\ pc = "sim_solve"
    /\ loop = "pgs"
    /\ nb_lam' = Some(pgs_alloc(Val(prob).n))
    /\ lam_t' = Val(prob).t
    /\ trace' = Append(trace, Entry("solve"))
    /\ pc' = "sim_update"
    /\ UNCHANGED <<exc, loop, runs, sim_t, sim_q, sim_v, prob, simFrame, trajVars>>

\* lam = solve_contact_ADMM_CCP(Del, g, mus): the function returns the global
\* lam, which the statement binds to lam again
Sim_solve_ccp ==
    /\ pc = "sim_solve"
    /\ loop = "ccp"
    /\ nb_lam # None
    /\ trace' = Append(trace, Entry("solve"))
    /\ pc' = "sim_update"
    /\ UNCHANGED <<exc, nb_lam, lam_t, loop, runs, sim_t, sim_q, sim_v, prob,
                   simFrame, trajVars>>

\* the same statement while the global lam is unbound: NameError
Sim_solve_ccp_raise ==
    /\ pc = "sim_solve"
    /\ loop = "ccp"
    /\ nb_lam = None
    /\ exc' = "NameError"
    /\ pc' = "sim_abort"
    /\ UNCHANGED <<nb_lam, lam_t, loop, runs, sim_t, sim_q, sim_v, prob, trace,
                   simFrame, trajVars>>

\* dv = dt*pin.aba(model, data, q, v, tau + J.T @ lam/dt); v += dv
Sim_update ==
    /\ pc = "sim_update"
    /\ Size(Val(nb_lam)) = 3 * Val(prob).n
    /\ sim_v' = <<"updated", Stamp>>
    /\ heap' = [heap EXCEPT ![v_obj] = <<"updated", Stamp>>]
    /\ trace' = Append(trace, Entry("update"))
    /\ pc' = "sim_integrate"
    /\ UNCHANGED <<exc, nb_lam, lam_t, loop, runs, sim_t, sim_q, prob, simFrame,
                   q_obj, v_obj, qs, vs, hist_q, hist_v>>

\* J.T @ lam with a lam that has not 3*n elements: ValueError
Sim_update_raise ==
    /\ pc = "sim_update"
    /\ Size(Val(nb_lam)) # 3 * Val(prob).n
    /\ exc' = "ValueError"
    /\ pc' = "sim_abort"
    /\ UNCHANGED <<nb_lam, lam_t, loop, runs, sim_t, sim_q, sim_v, prob, trace,
                   simFrame, trajVars>>

\* else: v = vf
Sim_free ==
    /\ pc = "sim_free"
    /\ sim_v' = <<"vf", Stamp>>
    /\ heap' = Alloc(heap, <<"vf", Stamp>>)
    /\ v_obj' = Size(heap)
    /\ trace' = Append(trace, Entry("free"))
    /\ pc' = "sim_integrate"
    /\ UNCHANGED <<exc, nb_lam, lam_t, loop, runs, sim_t, sim_q, prob, simFrame,
                   q_obj, qs, vs, hist_q, hist_v>>

\* q = pin.integrate(model, q, v*dt)
Sim_integrate ==
    /\ pc = "sim_integrate"
    /\ sim_q' = <<"integrated", Stamp>>
    /\ heap' = Alloc(heap, <<"integrated", Stamp>>)
    /\ q_obj' = Size(heap)
    /\ trace' = Append(trace, Entry("integrate"))
    /\ pc' = "sim_record"
    /\ UNCHANGED <<exc, nb_lam, lam_t, loop, runs, sim_t, sim_v, prob, simFrame,
                   v_obj, qs, vs, hist_q, hist_v>>

\* qs += [q]; vs += [v]
Sim_record ==
    /\ pc = "sim_record"
    /\ trace' = Append(trace, Entry("record"))
    /\ qs' = Append(qs, q_obj)
    /\ vs' = Append(vs, v_obj)
    /\ hist_q' = Append(hist_q, heap[q_obj])
    /\ hist_v' = Append(hist_v, heap[v_obj])
    /\ pc' = "sim_next"
    /\ UNCHANGED <<exc, nb_lam, lam_t, loop, runs, sim_t, sim_q, sim_v, prob,
                   simFrame, heap, q_obj, v_obj>>

\* for t in range(T): the next timestep
Sim_next ==
    /\ pc = "sim_next"
    /\ sim_t + 1 < MaxT
    /\ sim_t' = sim_t + 1
    /\ prob' = None
    /\ trace' = <<>>
    /\ pc' = "sim_collide"
    /\ UNCHANGED <<exc, nb_lam, lam_t, loop, runs, sim_q, sim_v, simFrame, trajVars>>

\* the loop is over, after its last timestep or by an exception; the global
\* lam stays bound
Sim_end ==
    /\ \/ pc = "sim_next" /\ sim_t + 1 = MaxT
       \/ pc = "sim_abort"
    /\ loop' = "none"
    /\ sim_t' = 0
    /\ sim_q' = <<>>
    /\ sim_v' = <<>>
    /\ prob' = None
    /\ trace' = <<>>
    /\ heap' = <<>>
    /\ q_obj' = -1
    /\ v_obj' = -1
    /\ qs' = <<>>
    /\ vs' = <<>>
    /\ hist_q' = <<>>
    /\ hist_v' = <<>>
    /\ exc' = "none"
    /\ pc' = "idle"
    /\ UNCHANGED <<nb_lam, lam_t, runs, simFrame>>

NextSim ==
    \/ Sim_start
    \/ Sim_collide
    \/ Sim_problem
    \/ Sim_solve_pgs
    \/ Sim_solve_ccp
    \/ Sim_solve_ccp_raise
    \/ Sim_update
    \/ Sim_update_raise
    \/ Sim_free
    \/ Sim_integrate
    \/ Sim_record
    \/ Sim_next
    \/ Sim_end

SpecSim == Init /\ [][NextSim]_vars

\* the statements of a timestep with contacts and of one without, in order
ExpectedContact == <<"collide", "problem", "solve", "update", "integrate", "record">>

ExpectedFree == <<"collide", "problem", "free", "integrate", "record">>

IsPrefix(s, t) == Len(s) <= Len(t) /\ \A k \in 1..Len(s) : s[k] = t[k]

\* the statements executed so far in the running timestep
Ops == [k \in DOMAIN trace |-> trace[k].op]

HasContacts == prob # None /\ Val(prob).n > 0

\* C19: in every timestep the statements run in the order collision
\* detection, contact problem (from the q and v the timestep started with),
\* solver call (once, on the problem of this timestep), velocity update (with
\* the lam computed from the problem of this timestep), integration (with the
\* v this timestep wrote); without contacts no solver call and v = vf
C19_StepOrder ==
    loop # "none" =>
        /\ IsPrefix(Ops, IF HasContacts \/ prob = None
                         THEN ExpectedContact ELSE ExpectedFree)
        /\ (pc = "sim_next" =>
              Len(trace) = IF HasContacts THEN 6 ELSE 5)
        /\ \A k \in DOMAIN trace :
             /\ trace[k].op = "problem" =>
                  (trace[k].q = trace[1].q /\ trace[k].v = trace[1].v)
             /\ trace[k].op = "solve" => trace[k].pt = Stamp
             /\ trace[k].op = "update" =>
                  (trace[k].pt = Stamp /\ trace[k].lam = Stamp)
             /\ trace[k].op = "integrate" =>
                  trace[k].v = <<IF HasContacts THEN "updated" ELSE "vf", Stamp>>

\* C19 for the loops that call solve_contact
C19_StepOrderPGS == loop = "pgs" => C19_StepOrder

\* ------------------------------------------- calls on mismatched dimensions
\* solve_contact is entered with G and g built for m contacts and a list mus
\* of n /= m coefficients: no statement compares the dimensions
PGS_call_mismatched ==
    /\ pc = "idle"
    /\ \E n \in 0..MaxSolveNc, m \in 0..MaxSolveNc :
         /\ n # m
         /\ \E Gi \in DelassusSet(m), gi \in FreeVelSet(m),
               mu \in Vectors(n, MuSet), tl \in TolSet, mi \in 1..MaxIter :
               /\ G' = Gi
               /\ g' = gi
               /\ mus' = mu
               /\ tol' = tl
               /\ max_iter' = mi
               /\ nc' = Size(mu)
               /\ pgs_lam' = pgs_alloc(Size(mu))
    /\ site' = "expr"
    /\ j' = 0
    /\ i' = 0
    /\ pc' = "pgs_outer"
    /\ UNCHANGED <<exc, rho, ret, nb_lam, socVars, sigVars, simVars>>

\* SOC_projection is entered with n blocks and a list mus of m /= n
\* coefficients
SOC_call_mismatched ==
    /\ pc = "idle"
    /\ \E n \in 0..MaxNc, m \in 0..MaxNc :
         /\ n # m
         /\ \E bs \in Vectors(n, BlockSet), mu \in Vectors(m, MuSet) :
               SOC_enter(Flat(bs), mu)
    /\ prev_ret' = None

\* the loop body for a contact that has a coefficient
SOC_iter_indexed == i \in DOMAIN mus /\ SOC_iter

\* mus[i] with i >= len(mus): IndexError
SOC_raise ==
    /\ pc = "soc_loop"
    /\ i < nc
    /\ i \notin DOMAIN mus
    /\ exc' = "IndexError"
    /\ pc' = "soc_done"
    /\ UNCHANGED <<mus, nc, i, socVars, solveVars, sigVars, simVars>>

NextDims ==
    \/ PGS_call_mismatched
    \/ PGS_sweep
    \/ PGS_contact
    \/ PGS_sweep_end
    \/ PGS_return
    \/ SOC_call_mismatched
    \/ SOC_iter_indexed
    \/ SOC_raise
    \/ SOC_return

SpecDims == Init /\ [][NextDims]_vars

\* C15: a call on mismatched dimensions performs no iteration and ends with an
\* error, never with a result
C15_FailFast ==
    /\ pc # "pgs_inner"
    /\ (pc = "soc_loop" => i = 0)
    /\ (pc \in {"pgs_done", "soc_done"} =>
          (exc # "none" /\ ret = None /\ soc_ret = None /\ i = 0 /\ j = 0))

\* ---------------------------------------------------- compute_sig_residual
RAbs(a) == <<Abs(a[1]), a[2]>>

RNeg(a) == <<-a[1], a[2]>>

RMax(a, b) == IF RLt(a, b) THEN b ELSE a

\* np.linalg.norm(v, np.inf) of a non-empty vector: max(abs(v))
NormInf(v) ==
    CHOOSE m \in {RAbs(v[k]) : k \in DOMAIN v} :
        \A k \in DOMAIN v : RLe(RAbs(v[k]), m)

\* resid_vec = np.zeros(3*n_c) written as np.ones
sig_alloc_ones(n) == [k \in 0..(3 * n - 1) |-> R(1)]

\* resid_vec = np.zeros(3*n_c)
sig_alloc(n) == Zeros(3 * n)

\* compute_sig_residual(lambda_n, c_n, c_n_star) is entered
Sig_call ==
    /\ pc = "idle"
    /\ \E n \in 0..MaxSigNc :
         \E ln \in Vectors(n, SigLamSet), cn \in Vectors(n, SigCSet),
            cs \in Vectors(n, SigCStarSet) :
            /\ lambda_n' = ln
            /\ c_n' = cn
            /\ c_n_star' = cs
            /\ n_c' = Size(ln)
            /\ resid_vec' = sig_alloc(Size(ln))
    /\ i' = 0
    /\ sig_ret' = None
    /\ pc' = "sig_loop"
    /\ UNCHANGED <<exc, mus, nc, socVars, solveVars, simVars>>

\* for i in range(n_c): the body of the loop is `pass`
Sig_iter ==
    /\ pc = "sig_loop"
    /\ i < n_c
    /\ i' = i + 1
    /\ UNCHANGED <<pc, exc, mus, nc, socVars, solveVars, sigVars, simVars>>

\* return np.linalg.norm(resid_vec, np.inf)
Sig_return ==
    /\ pc = "sig_loop"
    /\ i = n_c
    /\ Size(resid_vec) > 0
    /\ sig_ret' = Some(NormInf(resid_vec))
    /\ pc' = "sig_done"
    /\ UNCHANGED <<exc, mus, nc, i, socVars, solveVars,
                   lambda_n, c_n, c_n_star, n_c, resid_vec, simVars>>

\* the same statement on an empty resid_vec: abs(x).max() of a zero-size
\* array raises ValueError
Sig_raise ==
    /\ pc = "sig_loop"
    /\ i = n_c
    /\ Size(resid_vec) = 0
    /\ exc' = "ValueError"
    /\ pc' = "sig_done"
    /\ UNCHANGED <<mus, nc, i, socVars, solveVars, sigVars, simVars>>

NextSig == Sig_call \/ Sig_iter \/ Sig_return \/ Sig_raise

SpecSig == Init /\ [][NextSig]_vars

\* ------------------------------------- residual of a solver's result (drivers)
\* the solver of the running frame
OfPGS == tol # 0

OfCCP == rho # Zero

\* compute_sig_residual(lam[2::3].tolist(), c[2::3].tolist(), [0]*len(mus)) on
\* the result of the solver call that just returned; c = J@v comes from the
\* dynamics library and is any vector of contact velocities
Diag_call ==
    /\ pc \in {"pgs_done", "admm_done"}
    /\ exc = "none"
    /\ Size(mus) >= 1
    /\ lambda_n' = NormalSlice(Val(ret))
    /\ \E cn \in Vectors(Size(mus), SigCSet) : c_n' = cn
    /\ c_n_star' = Zeros(Size(mus))
    /\ n_c' = Size(NormalSlice(Val(ret)))
    /\ resid_vec' = sig_alloc(Size(NormalSlice(Val(ret))))
    /\ i' = 0
    /\ sig_ret' = None
    /\ pc' = "sig_loop"
    /\ UNCHANGED <<exc, mus, nc, socVars, solveVars, simVars>>

\* the residual of the PGS result is kept and the second loop calls
\* solve_contact_ADMM_CCP(Del, g, mus, 1e1) on the same contact problem
Diag_ccp_call ==
    /\ pc = "sig_done"
    /\ exc = "none"
    /\ OfPGS
    /\ memo' = sig_ret
    /\ \E r \in RhoSet : rho' = r
    /\ tol' = 0
    /\ site' = "loop"
    /\ ret' = None
    /\ pc' = "admm_body"
    /\ UNCHANGED <<exc, mus, nc, i, G, g, max_iter, j, pgs_lam, nb_lam, socVars,
                   sigVars, loop, runs, sim_t, sim_q, sim_v, prob, lam_t, trace, trajVars, resids,
                   ctlVars>>

\* both residuals were looked at: the frames are dropped
Diag_end ==
    /\ pc = "sig_done"
    /\ OfCCP
    /\ DropFrame
    /\ lambda_n' = <<>>
    /\ c_n' = <<>>
    /\ c_n_star' = <<>>
    /\ n_c' = 0
    /\ resid_vec' = <<>>
    /\ sig_ret' = None
    /\ memo' = None
    /\ pc' = "idle"
    /\ UNCHANGED <<nb_lam, socVars, loop, runs, sim_t, sim_q, sim_v, prob,
                   lam_t, trace, trajVars, resids,
                   ctlVars>>

NextDiag ==
    \/ PGS_call
    \/ PGS_sweep
    \/ PGS_contact
    \/ PGS_sweep_end
    \/ PGS_return
    \/ ADMM_return
    \/ ADMM_raise
    \/ Solver_next
    \/ Diag_call
    \/ Sig_iter
    \/ Sig_return
    \/ Sig_raise
    \/ Diag_ccp_call
    \/ Diag_end

SpecDiag == Init /\ [][NextDiag]_vars

\* C18: the Signorini residual of the solve_contact result is large (not
\* zero), and the residual of the solve_contact_ADMM_CCP result for the same
\* contact problem is smaller
C18_PGSResidualLarger ==
    /\ (pc = "sig_done" /\ OfPGS) =>
          (sig_ret # None /\ RGt(Val(sig_ret), Zero))
    /\ (pc = "admm_done" /\ memo # None) => exc = "none"
    /\ (pc = "sig_done" /\ OfCCP) =>
          (sig_ret # None /\ RLt(Val(sig_ret), Val(memo)))

\* ------------------------------------------------------ sliding-cube loops
\* what a sliding-cube loop leaves alone
slideFrame == <<mus, nc, i, G, g, tol, rho, max_iter, j, pgs_lam, site, ret,
                socVars, sigVars, memo, trace, trajVars, ctlVars>>

\* q, v = q0.copy(), v0.copy(); signorini_resids = []; for t in range(T): of
\* the cell with the PGS solver or of the cell with the CCP solver
Slide_start ==
    /\ pc = "idle"
    /\ loop = "none"
    /\ runs < MaxRuns
    /\ \E kind \in {"slide_pgs", "slide_ccp"} : loop' = kind
    /\ runs' = runs + 1
    /\ sim_t' = 0
    /\ sim_q' = <<"q0", 0>>
    /\ sim_v' = <<"v0", 0>>
    /\ prob' = None
    /\ resids' = <<>>
    /\ pc' = "slide_problem"
    /\ UNCHANGED <<exc, nb_lam, lam_t, slideFrame>>

\* tau; updateGeometryPlacements; computeCollisions; J, vf, Del, g, mus =
\* computeContactProblem(...); if J is not None: n contacts are found
Slide_problem ==
    /\ pc = "slide_problem"
    /\ \E n \in 0..MaxSlideNc :
         /\ prob' = Some([n |-> n, t |-> Stamp])
         /\ pc' = IF n = 0 THEN "slide_free" ELSE "slide_solve"
    /\ UNCHANGED <<exc, nb_lam, lam_t, loop, runs, sim_t, sim_q, sim_v, resids,
                   slideFrame>>

\* lam = solve_contact(Del, g, mus, tolerance, max_iter)
Slide_solve_pgs ==
    /\ pc = "slide_solve"
    /\ loop = "slide_pgs"
    /\ nb_lam' = Some(pgs_alloc(Val(prob).n))
    /\ lam_t' = Val(prob).t
    /\ pc' = "slide_update"
    /\ UNCHANGED <<exc, loop, runs, sim_t, sim_q, sim_v, prob, resids, slideFrame>>

\* lam = solve_contact_ADMM_CCP(Del, g, mus, 1e1): returns the global lam
Slide_solve_ccp ==
    /\ pc = "slide_solve"
    /\ loop = "slide_ccp"
    /\ nb_lam # None
    /\ pc' = "slide_update"
    /\ UNCHANGED <<exc, nb_lam, lam_t, loop, runs, sim_t, sim_q, sim_v, prob,
                   resids, slideFrame>>

\* the same statement while the global lam is unbound: NameError
Slide_solve_ccp_raise ==
    /\ pc = "slide_solve"
    /\ loop = "slide_ccp"
    /\ nb_lam = None
    /\ exc' = "NameError"
    /\ pc' = "slide_abort"
    /\ UNCHANGED <<nb_lam, lam_t, loop, runs, sim_t, sim_q, sim_v, prob, resids,
                   slideFrame>>

\* dv = dt*pin.aba(model, data, q, v, tau + J.T @ lam/dt); v += dv
Slide_update ==
    /\ pc = "slide_update"
    /\ Size(Val(nb_lam)) = 3 * Val(prob).n
    /\ sim_v' = <<"updated", Stamp>>
    /\ pc' = IF loop = "slide_pgs" THEN "slide_forces" ELSE "slide_resid"
    /\ UNCHANGED <<exc, nb_lam, lam_t, loop, runs, sim_t, sim_q, prob, resids,
                   slideFrame>>

\* J.T @ lam with a lam that has not 3*n elements: ValueError
Slide_update_raise ==
    /\ pc = "slide_update"
    /\ Size(Val(nb_lam)) # 3 * Val(prob).n
    /\ exc' = "ValueError"
    /\ pc' = "slide_abort"
    /\ UNCHANGED <<nb_lam, lam_t, loop, runs, sim_t, sim_q, sim_v, prob, resids,
                   slideFrame>>

\* for i in range(4): internal_forces[t,i] = lam[3*i]/dt, every index in range
Slide_forces ==
    /\ pc = "slide_forces"
    /\ \A k \in 0..3 : 3 * k \in DOMAIN Val(nb_lam)
    /\ pc' = "slide_resid"
    /\ UNCHANGED <<exc, nb_lam, lam_t, loop, runs, sim_t, sim_q, sim_v, prob,
                   resids, slideFrame>>

\* the same loop with fewer than four contacts: lam[3*i] raises IndexError
Slide_forces_raise ==
    /\ pc = "slide_forces"
    /\ \E k \in 0..3 : 3 * k \notin DOMAIN Val(nb_lam)
    /\ exc' = "IndexError"
    /\ pc' = "slide_abort"
    /\ UNCHANGED <<nb_lam, lam_t, loop, runs, sim_t, sim_q, sim_v, prob, resids,
                   slideFrame>>

\* else: v = vf; in the PGS cell the residual statement follows the if, in the
\* CCP cell the else branch appends its own 0
Slide_free ==
    /\ pc = "slide_free"
    /\ sim_v' = <<"vf", Stamp>>
    /\ pc' = IF loop = "slide_pgs" THEN "slide_resid" ELSE "slide_zero"
    /\ UNCHANGED <<exc, nb_lam, lam_t, loop, runs, sim_t, sim_q, prob, resids,
                   slideFrame>>

\* c = J@v; signorini_resids.append(compute_sig_residual(lam[2::3].tolist(),
\* c[2::3].tolist(), [0]*len(mus))) with J an array
Slide_resid ==
    /\ pc = "slide_resid"
    /\ Val(prob).n > 0
    /\ resids' = Append(resids,
                        NormInf(sig_alloc(Size(NormalSlice(Val(nb_lam))))))
    /\ pc' = "slide_integrate"
    /\ UNCHANGED <<exc, nb_lam, lam_t, loop, runs, sim_t, sim_q, sim_v, prob,
                   slideFrame>>

\* c = J@v with J = None: the operator @ raises, TypeError or ValueError
\* according to the version of numpy
Slide_resid_raise ==
    /\ pc = "slide_resid"
    /\ Val(prob).n = 0
    /\ exc' \in {"TypeError", "ValueError"}
    /\ pc' = "slide_abort"
    /\ UNCHANGED <<nb_lam, lam_t, loop, runs, sim_t, sim_q, sim_v, prob, resids,
                   slideFrame>>

\* signorini_resids_ccp.append(0)
Slide_zero ==
    /\ pc = "slide_zero"
    /\ resids' = Append(resids, Zero)
    /\ pc' = "slide_integrate"
    /\ UNCHANGED <<exc, nb_lam, lam_t, loop, runs, sim_t, sim_q, sim_v, prob,
                   slideFrame>>

\* q = pin.integrate(model, q, v*dt); qs[:,t] = q; vs[:,t] = v; next t
Slide_integrate ==
    /\ pc = "slide_integrate"
    /\ sim_q' = <<"integrated", Stamp>>
    /\ sim_t' = sim_t + 1
    /\ prob' = None
    /\ pc' = IF sim_t + 1 < MaxT THEN "slide_problem" ELSE "slide_done"
    /\ UNCHANGED <<exc, nb_lam, lam_t, loop, runs, sim_v, resids, slideFrame>>

\* the cell is over, after its last timestep or by an exception; the global
\* lam stays bound
Slide_end ==
    /\ pc \in {"slide_done", "slide_abort"}
    /\ loop' = "none"
    /\ sim_t' = 0
    /\ sim_q' = <<>>
    /\ sim_v' = <<>>
    /\ prob' = None
    /\ resids' = <<>>
    /\ exc' = "none"
    /\ pc' = "idle"
    /\ UNCHANGED <<nb_lam, lam_t, runs, slideFrame>>

NextSlide ==
    \/ Slide_start
    \/ Slide_problem
    \/ Slide_solve_pgs
    \/ Slide_solve_ccp
    \/ Slide_solve_ccp_raise
    \/ Slide_update
    \/ Slide_update_raise
    \/ Slide_forces
    \/ Slide_forces_raise
    \/ Slide_free
    \/ Slide_resid
    \/ Slide_resid_raise
    \/ Slide_zero
    \/ Slide_integrate
    \/ Slide_end

SpecSlide == Init /\ [][NextSlide]_vars

\* C28: in both sliding-cube loops every timestep completes without error and
\* appends exactly one residual, 0 when there is no contact, so the list has
\* length T after the loop
C28_OneResidualPerStep ==
    loop \in {"slide_pgs", "slide_ccp"} =>
        /\ exc = "none"
        /\ pc # "slide_abort"
        /\ (pc = "slide_problem" => Len(resids) = sim_t)
        /\ (pc = "slide_integrate" =>
              /\ Len(resids) = sim_t + 1
              /\ (Val(prob).n = 0 => resids[sim_t + 1] = Zero))
        /\ (pc = "slide_done" => Len(resids) = MaxT)

\* C28 for timesteps with four contacts or more in the PGS cell, and with the
\* global lam bound to a vector of the right length in the CCP cell
C28_FourContacts ==
    [][(loop \in {"slide_pgs", "slide_ccp"} /\ pc' = "slide_abort") =>
          \/ Val(prob).n < 4 /\ loop = "slide_pgs"
          \/ loop = "slide_ccp" /\ pc \in {"slide_solve", "slide_update"}]_vars

\* --------------------------------------------- compute_sig_residual: claims
\* c_n[k] - c_n_star[k]
Gap(k) == RAdd(c_n[k], RNeg(c_n_star[k]))

\* the three residuals of contact k
SigTerms(k) ==
    {RMax(Zero, RNeg(lambda_n[k])),
     RMax(Zero, RNeg(Gap(k))),
     RMul(lambda_n[k], Gap(k))}

\* the largest absolute value of the residuals of all contacts
SigExpected ==
    LET all == UNION {{RAbs(t) : t \in SigTerms(k)} : k \in 0..(n_c - 1)}
    IN CHOOSE m \in all : \A t \in all : RLe(t, m)

\* C9: the value returned is the largest absolute value, over all contacts, of
\* max(0, -lambda_n), max(0, -(c_n - c_n_star)) and lambda_n * (c_n - c_n_star)
C9_SigResidualIsMax ==
    (pc = "sig_done" /\ n_c >= 1) => sig_ret = Some(SigExpected)

\* contact k satisfies Signorini's condition exactly
Signorini(k) ==
    /\ RLe(Zero, lambda_n[k])
    /\ RLe(Zero, Gap(k))
    /\ RMul(lambda_n[k], Gap(k)) = Zero

SOC_returned == pc = "soc_done" /\ prev_ret = None

SOC_out == Val(soc_ret)

Contacts == 0..(nc - 1)

\* C1: every block of the result has tangential norm <= mu * normal component
C1_ConeFeasible ==
    SOC_returned =>
        \A k \in Contacts :
            RLe(Norm2(SOC_out[3 * k], SOC_out[3 * k + 1]),
                RMul(mus[k], SOC_out[3 * k + 2]))

\* C2: the normal component of every block of the result is >= 0
C2_NormalNonNegative ==
    SOC_returned => \A k \in Contacts : RLe(Zero, SOC_out[3 * k + 2])

\* the block k of the argument is feasible: tangential norm <= mu * normal
InputFeasible(k) ==
    RLe(Norm2(lam[3 * k], lam[3 * k + 1]), RMul(mus[k], lam[3 * k + 2]))

\* C3: a block that is already feasible is returned unchanged, all three
\* components
C3_FeasibleUnchanged ==
    SOC_returned =>
        \A k \in Contacts :
            InputFeasible(k) =>
                /\ REq(SOC_out[3 * k], lam[3 * k])
                /\ REq(SOC_out[3 * k + 1], lam[3 * k + 1])
                /\ REq(SOC_out[3 * k + 2], lam[3 * k + 2])

\* a feasible block with a nonzero tangential part and a positive normal part
\* has been returned, next to a block that was not feasible
C3_Witness ==
    /\ SOC_returned
    /\ nc = 2
    /\ InputFeasible(0)
    /\ lam[1] = R(-1)
    /\ lam[2] = R(2)
    /\ mus[0] = R(1)
    /\ SOC_out[2] = R(2)
    /\ ~InputFeasible(1)

\* C4: projecting the result again, with the same mus, gives the same vector
C4_Idempotent ==
    (pc = "soc_done" /\ prev_ret # None) => VecEq(Val(soc_ret), Val(prev_ret))

\* C5: a block whose tangential norm is zero is never divided by that norm and
\* its tangential components come back as zero
C5_ZeroTangentialGuarded ==
    SOC_returned =>
        \A k \in Contacts :
            Norm2(lam[3 * k], lam[3 * k + 1]) = Zero =>
                /\ ~SOC_divides(lam, mus, k)
                /\ SOC_out[3 * k] = Zero
                /\ SOC_out[3 * k + 1] = Zero

\* C6: while a call runs its arguments lam and mus keep their values, and the
\* vector returned is the one the arguments determine, block by block
C6_Pure ==
    /\ [][pc = "soc_loop" => (lam' = lam /\ mus' = mus)]_vars
    /\ [](pc = "soc_done" =>
            /\ Size(SOC_out) = Size(lam)
            /\ \A k \in Contacts :
                 copy_block(SOC_out, k) = SOC_block(lam, mus, k))

\* a call has returned a vector that differs from its argument
C6_Witness ==
    /\ SOC_returned
    /\ nc = 2
    /\ \E k \in DOMAIN lam : SOC_out[k] # lam[k]


RECURSIVE RowSum(_, _, _, _)
RowSum(Gm, l, r, n) ==
    IF n = 0 THEN Zero
    ELSE RAdd(RowSum(Gm, l, r, n - 1), RMul(Gm[r, n - 1], l[n - 1]))

\* component r of c = G lam + g
Velocity(Gm, gv, l, r) == RAdd(RowSum(Gm, l, r, Size(l)), gv[r])

\* x*x + y*y
Sq2(x, y) == RAdd(RMul(x, x), RMul(y, y))

\* block k of l, with the velocity of contact k under l, solves the
\* single-contact problem: Signorini, friction cone, maximum dissipation
\* (lam_T is a non-positive multiple of c_T of norm mu * lam_N)
BlockNCP(l, k) ==
    LET lx == l[3 * k]
        ly == l[3 * k + 1]
        ln == l[3 * k + 2]
        cx == Velocity(G, g, l, 3 * k)
        cy == Velocity(G, g, l, 3 * k + 1)
        cn == Velocity(G, g, l, 3 * k + 2)
        m2 == RMul(RMul(mus[k], mus[k]), RMul(ln, ln))
    IN /\ RLe(Zero, ln)
       /\ RLe(Zero, cn)
       /\ REq(RMul(ln, cn), Zero)
       /\ RLe(Sq2(lx, ly), m2)
       /\ (~REq(Sq2(cx, cy), Zero) =>
             /\ REq(Sq2(lx, ly), m2)
             /\ REq(RMul(lx, cy), RMul(ly, cx))
             /\ RLe(RAdd(RMul(lx, cx), RMul(ly, cy)), Zero))

\* C21: the update of contact i evaluates c^i with the current impulse vector
\* and overwrites block i in place: a block that does not solve its
\* single-contact problem under the current vector is changed, every other
\* block keeps its value
C21_GaussSeidel ==
    [][(pc = "pgs_inner" /\ i < nc /\ i' = i + 1) =>
          /\ \A k \in DOMAIN pgs_lam :
                (k \div 3 # i) => pgs_lam'[k] = pgs_lam[k]
          /\ (~BlockNCP(pgs_lam, i) =>
                \E x \in 0..2 : pgs_lam'[3 * i + x] # pgs_lam[3 * i + x])]_vars

\* C22: right after the update of contact i - 1 its block solves the
\* single-contact problem with the other impulses held fixed
C22_SingleContactNCP ==
    (pc = "pgs_inner" /\ i >= 1) => BlockNCP(pgs_lam, i - 1)


\* ------------------------------------- solve_contact_ADMM_CCP: the iteration
\* the first lambda-update from z = 0 and u = 0: (G + rho*I) lambda = -g; the
\* matrices of DelassusSet are diagonal and the system decouples
Primal1 == [r \in DOMAIN g |-> RDiv(RNeg(g[r]), RAdd(G[r, r], rho))]

\* block k of z is the Euclidean projection of block k of y on the cone of
\* coefficient mu: z is in the cone, y - z in its polar cone, and the two are
\* orthogonal
IsConeProjection(z, y, mu, k) ==
    LET wx == RAdd(y[3 * k], RNeg(z[3 * k]))
        wy == RAdd(y[3 * k + 1], RNeg(z[3 * k + 1]))
        wn == RAdd(y[3 * k + 2], RNeg(z[3 * k + 2]))
        m2 == RMul(mu, mu)
    IN /\ RLe(Zero, z[3 * k + 2])
       /\ RLe(Sq2(z[3 * k], z[3 * k + 1]),
              RMul(m2, RMul(z[3 * k + 2], z[3 * k + 2])))
       /\ RLe(wn, Zero)
       /\ RLe(RMul(m2, Sq2(wx, wy)), RMul(wn, wn))
       /\ REq(RAdd(RAdd(RMul(z[3 * k], wx), RMul(z[3 * k + 1], wy)),
                   RMul(z[3 * k + 2], wn)), Zero)

\* C23: solve_contact_ADMM_CCP iterates from z = 0 and u = 0, max_iter times,
\* lambda-update then z-update then u-update; after a call with max_iter = 1
\* the vector returned is the lambda of the first iteration or its projection z
C23_ADMMIteration ==
    pc = "admm_done" =>
        /\ exc = "none"
        /\ ret # None
        /\ Size(Val(ret)) = Size(g)
        /\ (max_iter = 1 =>
              \/ \A r \in DOMAIN g : REq(Val(ret)[r], Primal1[r])
              \/ \A k \in DOMAIN mus :
                    IsConeProjection(Val(ret), Primal1, mus[k], k))


\* --------------------------------------------- SOC_projection: the formulas
\* norm of the tangential part of block k of the argument
TangNorm(k) == Norm2(lam[3 * k], lam[3 * k + 1])

\* block k of the argument is outside the cone: x > mu * z
Outside(k) == RGt(TangNorm(k), RMul(mus[k], lam[3 * k + 2]))

\* mu * x + z of block k of the argument
AlongCone(k) == RAdd(RMul(mus[k], TangNorm(k)), lam[3 * k + 2])

\* C24: a block outside the cone with mu*x + z >= 0 comes back with the
\* normal component (mu*x + z)/(1 + mu^2) and the tangential part of the
\* argument scaled by mu * (that normal component) / x
C24_NearestPoint ==
    SOC_returned =>
        \A k \in Contacts :
            (Outside(k) /\ RLe(Zero, AlongCone(k))) =>
                LET n == RDiv(AlongCone(k), RAdd(R(1), RMul(mus[k], mus[k])))
                    f == RDiv(RMul(mus[k], n), TangNorm(k))
                IN /\ REq(SOC_out[3 * k + 2], n)
                   /\ REq(SOC_out[3 * k], RMul(lam[3 * k], f))
                   /\ REq(SOC_out[3 * k + 1], RMul(lam[3 * k + 1], f))
                   /\ REq(Norm2(SOC_out[3 * k], SOC_out[3 * k + 1]),
                          RMul(mus[k], n))

\* the block (3, 4, 2) with mu = 1/2 was projected to normal component 18/5
C24_Witness ==
    /\ SOC_returned
    /\ nc >= 1
    /\ lam[0] = R(3)
    /\ lam[1] = R(4)
    /\ lam[2] = R(2)
    /\ mus[0] = Rat(1, 2)
    /\ Outside(0)
    /\ SOC_out[2] = Rat(18, 5)
    /\ SOC_out[0] = Rat(27, 25)

\* C25: a block outside the cone with mu*x + z < 0 comes back all zero
C25_ClampToZero ==
    SOC_returned =>
        \A k \in Contacts :
            (Outside(k) /\ RLt(AlongCone(k), Zero)) =>
                /\ SOC_out[3 * k] = Zero
                /\ SOC_out[3 * k + 1] = Zero
                /\ SOC_out[3 * k + 2] = Zero

\* C29: the normal component of a block never decreases and the norm of its
\* tangential part never increases
C29_Monotone ==
    SOC_returned =>
        \A k \in Contacts :
            /\ RLe(lam[3 * k + 2], SOC_out[3 * k + 2])
            /\ RLe(Norm2(SOC_out[3 * k], SOC_out[3 * k + 1]), TangNorm(k))


\* --------------------------------------------------- recorded trajectories
\* C27: every entry of vs and of qs still has the value it had when it was
\* appended
C27_FaithfulHistory ==
    loop # "none" =>
        /\ \A k \in DOMAIN vs : heap[vs[k]] = hist_v[k]
        /\ \A k \in DOMAIN qs : heap[qs[k]] = hist_q[k]

\* the same for qs alone
C27_FaithfulPositions ==
    loop # "none" => \A k \in DOMAIN qs : heap[qs[k]] = hist_q[k]

\* the names q and v are read through the arrays they are bound to
HeapConsistent ==
    loop # "none" => (heap[v_obj] = sim_v /\ heap[q_obj] = sim_q)


\* ------------------------------------------------ control notebook: LTI_system
\* what the cells of the control notebook leave alone
ctlFrame == <<mus, nc, i, socVars, solveVars, sigVars, memo, loop, runs, sim_t,
              sim_q, sim_v, prob, lam_t, trace, trajVars, resids>>

\* an r x c array filled with v
Matrix(r, c, v) ==
    [rows |-> r, cols |-> c,
     at |-> [a \in 0..(r - 1), b \in 0..(c - 1) |-> v]]

\* np.zeros((r, c))
np_zeros(r, c) == Matrix(r, c, 0)

\* the n x n identity
Identity(n) ==
    [rows |-> n, cols |-> n,
     at |-> [a \in 0..(n - 1), b \in 0..(n - 1) |-> IF a = b THEN 1 ELSE 0]]

\* M.shape: a tuple
shape(M) == [tag |-> "tuple", val |-> <<M.rows, M.cols>>]

\* np.eye(N): N has to be an integer, a tuple raises TypeError (None here)
np_eye(N) == IF N.tag = "int" THEN Some(Identity(N.val[1])) ELSE None

\* LTI_system(A, B, C, D), None standing for an omitted C or D: the whole of
\* __init__, up to its return or to the exception it raises
LTI_init ==
    /\ pc = "idle"
    /\ \E n \in 1..MaxDim, m \in 1..MaxDim, p \in 1..MaxDim :
         \E A \in {Identity(n), Matrix(n, n, 1)}, B \in {Matrix(n, m, 1)},
            C \in {None, Some(Matrix(p, n, 1))},
            D \in {None, Some(Matrix(p, m, 1))} :
            LET eyeC  == np_eye(shape(A))
                failC == C = None /\ eyeC = None
                failD == ~failC /\ D = None /\ C = None
                selfC == IF C = None THEN Val(eyeC) ELSE Val(C)
                selfD == IF D = None THEN np_zeros(Val(C).rows, B.cols)
                         ELSE Val(D)
            IN /\ exc' = IF failC THEN "TypeError"
                         ELSE IF failD THEN "AttributeError" ELSE "none"
               /\ lti' = Some([A |-> A, B |-> B, C |-> C, D |-> D,
                               self |-> IF failC \/ failD THEN None
                                        ELSE Some([A |-> A, B |-> B,
                                                   C |-> selfC, D |-> selfD])])
    /\ pc' = "lti_done"
    /\ UNCHANGED <<cart, ctlFrame>>

\* the notebook goes on to its next statement
LTI_next ==
    /\ pc = "lti_done"
    /\ lti' = None
    /\ exc' = "none"
    /\ pc' = "idle"
    /\ UNCHANGED <<cart, ctlFrame>>

\* ------------------------------------------------- control notebook: cart-pole
\* Ts = 0.01
Ts == Rat(1, 100)

\* C = np.array([[0,1,0,0],[0,0,0,1]])
Cmat == <<<<0, 1, 0, 0>>, <<0, 0, 0, 1>>>>

\* x0 = np.array([0,0,0.1,0]) and a state with four different components
CartX0 == [k \in 0..3 |-> IF k = 2 THEN Rat(1, 10) ELSE Zero]

CartStateSet == {CartX0, [k \in 0..3 |-> R(k + 1)]}

\* inputs u, accelerations computed from np.sin and np.cos
USet == {R(-7), R(0), R(3)}

AccSet == {R(-1), R(0), R(1)}

\* np.clip(u, lo, hi)
clip(u, lo, hi) == IF RLt(u, lo) THEN lo ELSE IF RGt(u, hi) THEN hi ELSE u

\* C @ x
MatVec(C, x) ==
    [r \in 0..(Len(C) - 1) |->
        RAdd(RAdd(RMul(R(C[r + 1][1]), x[0]), RMul(R(C[r + 1][2]), x[1])),
             RAdd(RMul(R(C[r + 1][3]), x[2]), RMul(R(C[r + 1][4]), x[3])))]

\* nls_cartpole(x, u, Ts) with xcddot = a1 and thetaddot = a2: what the locals
\* xc, xcdot, theta, thetadot are read from (rd), their values at the return
\* (loc) and the vector returned (out)
nls_cartpole(x, u, a1, a2) ==
    LET xcdot0    == x[1]
        thetadot0 == x[3]
        xc0       == x[0]
        theta0    == x[2]
        xc1       == RAdd(xc0, RMul(Ts, xcdot0))
        xcdot1    == RAdd(xcdot0, RMul(Ts, a1))
        theta1    == RAdd(theta0, RMul(Ts, thetadot0))
        thetadot1 == RAdd(thetadot0, RMul(Ts, a2))
    IN [x   |-> x,
        u   |-> clip(u, R(-5), R(5)),
        rd  |-> [xc |-> xc0, xcdot |-> xcdot0, theta |-> theta0,
                 thetadot |-> thetadot0],
        loc |-> [xc |-> xc1, xcdot |-> xcdot1, theta |-> theta1,
                 thetadot |-> thetadot1],
        out |-> [k \in 0..3 |-> <<xc1, xcdot1, theta1, thetadot1>>[k + 1]],
        y   |-> <<>>]

\* x_step = nls_cartpole(x, u, Ts)
Cart_call ==
    /\ pc = "idle"
    /\ \E x \in CartStateSet, u \in USet, a1 \in AccSet, a2 \in AccSet :
         cart' = Some(nls_cartpole(x, u, a1, a2))
    /\ pc' = "cart_stepped"
    /\ UNCHANGED <<exc, lti, ctlFrame>>

\* y_traj.append(C @ x_step)
Cart_output ==
    /\ pc = "cart_stepped"
    /\ cart' = Some([Val(cart) EXCEPT !.y = MatVec(Cmat, Val(cart).out)])
    /\ pc' = "cart_done"
    /\ UNCHANGED <<exc, lti, ctlFrame>>

\* the simulation cell as the notebook has it, K = []: y_traj.append(C @ x0),
\* then u = -K @ x_traj[-1] raises TypeError (unary minus of a list)
Cart_sim_raise ==
    /\ pc = "idle"
    /\ cart' = Some([x |-> CartX0, u |-> Zero, rd |-> <<>>, loc |-> <<>>,
                     out |-> <<>>, y |-> MatVec(Cmat, CartX0)])
    /\ exc' = "TypeError"
    /\ pc' = "cart_done"
    /\ UNCHANGED <<lti, ctlFrame>>

\* the notebook goes on to its next statement
Cart_next ==
    /\ pc = "cart_done"
    /\ cart' = None
    /\ exc' = "none"
    /\ pc' = "idle"
    /\ UNCHANGED <<lti, ctlFrame>>

NextControl ==
    \/ LTI_init
    \/ LTI_next
    \/ Cart_call
    \/ Cart_output
    \/ Cart_sim_raise
    \/ Cart_next

SpecControl == Init /\ [][NextControl]_vars

\* C26: nls_cartpole reads and returns the cart position at index 0, the pole
\* angle at index 1, the cart velocity at index 2 and the angular velocity at
\* index 3, and y = C x is the pole angle and the pole angular velocity
C26_StateOrdering ==
    (pc \in {"cart_stepped", "cart_done"} /\ Val(cart).out # <<>>) =>
        LET c == Val(cart)
        IN /\ c.rd.xc = c.x[0]
           /\ c.rd.theta = c.x[1]
           /\ c.rd.xcdot = c.x[2]
           /\ c.rd.thetadot = c.x[3]
           /\ c.out[0] = c.loc.xc
           /\ c.out[1] = c.loc.theta
           /\ c.out[2] = c.loc.xcdot
           /\ c.out[3] = c.loc.thetadot
           /\ (pc = "cart_done" =>
                 (c.y[0] = c.loc.theta /\ c.y[1] = c.loc.thetadot))

\* C26, the output alone: y[0] is the pole angle that nls_cartpole returned
C26_OutputIsAngle ==
    (pc = "cart_done" /\ Val(cart).out # <<>>) =>
        (Val(cart).y[0] = Val(cart).loc.theta
            /\ Val(cart).y[1] = Val(cart).loc.thetadot)

\* C30: LTI_system(A, B) succeeds with C the identity of A's dimension and D
\* a zero matrix of C's rows and B's columns; with C given and D omitted, D
\* is the same zero matrix
C30_Defaults ==
    (pc = "lti_done" /\ Val(lti).D = None) =>
        /\ exc = "none"
        /\ Val(lti).self # None
        /\ LET a == Val(lti)
               o == Val(Val(lti).self)
           IN /\ (a.C = None => o.C = Identity(a.A.rows))
              /\ o.D = np_zeros(o.C.rows, a.B.cols)

\* C30 for the calls that give C
C30_DefaultD ==
    (pc = "lti_done" /\ Val(lti).D = None /\ Val(lti).C # None) =>
        /\ exc = "none"
        /\ Val(lti).self # None
        /\ Val(Val(lti).self).D = np_zeros(Val(Val(lti).C).rows, Val(lti).B.cols)
        /\ Val(Val(lti).self).C = Val(Val(lti).C)

====
